---------------------------- MODULE Spec2Model ----------------------------
(***************************************************************************)
(* Model of src/speed/memory/memory.rs: the bump-pointer Arena, the        *)
(* XorShift64 generator, and the harness (main) with its workloads, the    *)
(* concurrent one (gc_stress_test / gc_stress_worker) among them.          *)
(*                                                                         *)
(* Four specifications share the module:                                   *)
(*   SpecArena    the Arena API under arbitrary call sequences             *)
(*   SpecGen      two independently constructed XorShift64 generators      *)
(*   SpecRun      one run of main, with the worker threads interleaved     *)
(*   SpecRunFair  a run without faults, under fair scheduling              *)
(***************************************************************************)
EXTENDS Integers, Sequences, FiniteSets, TLC


VARIABLES
    \* ---- Arena (SpecArena, and the pool workload of SpecRun) ----
    arena,            \* [len, used]: buffer.len() and the cursor
    overflow_checks,  \* build profile: TRUE = arithmetic overflow panics
    ctorSize,         \* the size Arena::new was called with
    live,             \* successful allocations since new / the last reset
    lastOp,           \* the last call: [op, size, ret, before]
    prevOp,           \* the call before the last one: [op, used, tag]
                      \* (the cursor before it, the tag of what it returned)
    firstAddr,        \* result of the first successful allocate after new
    \* ---- XorShift64 (SpecGen) ----
    seed,             \* the seed both generators were constructed with
    genA, genB,       \* two XorShift64 values: [state]
    outsA, outsB,     \* the values next() returned on each, in call order
    \* ---- main (SpecRun) ----
    args,             \* env::args() after the program name: <<>> or <<string>>
    scale_factor,     \* main's scale_factor
    stderr,           \* number of lines written by eprintln!
    stdout,           \* number of lines written by println!
    printed,          \* the number println! wrote, as formatted
    mainPc,           \* where the main thread is
    ran,              \* the workloads that have returned, in order
    returned,         \* the elapsed times they returned, in order
    total_time,       \* main's total_time
    \* ---- allocation_patterns_test ----
    apI,              \* index of the allocation loop, then of the free loop
    apRng,            \* its XorShift64
    raw_ptrs,         \* its raw_ptrs: pairs [ptr, size] (size of the layout)
    allocs,           \* every alloc call of the phase: [ptr, size] returned
    deallocs,         \* every dealloc call of the phase: [ptr, size] passed
    \* ---- gc_stress_test ----
    gcTimer,          \* gc_stress_test's timer: "unset", "started", "elapsed"
    counter,          \* the shared AtomicUsize
    handles,          \* gc_stress_test's handles: thread ids, in spawn order
    gcI,              \* index of the spawn loop, then of the join loop
    result,           \* what counter.load() returned: [tag, val]
    wPc,              \* per worker thread: where it is
    wI,               \* per worker thread: its loop variable i
    wRng,             \* per worker thread: its XorShift64
    wSize,            \* per worker thread: the size of its current buffer
    wSizes,           \* per worker thread: the sizes it has drawn, in order
    \* ---- memory_pool_test ----
    poolI,            \* index of the current allocation loop
    poolBatch,        \* index of the batch loop
    arena_ptrs,       \* its arena_ptrs: the pointers allocate returned
    poolOk,           \* allocate calls of the workload that returned Some
    poolResets,       \* reset calls of the workload
    \* ---- memory_intensive_test ----
    large_array1,     \* buffer 1: byte at each index 0 .. size - 1
    large_array2,     \* buffer 2
    miI,              \* index of the random read-modify-write loop
    miRng             \* its XorShift64

arenaVars == <<arena, overflow_checks, ctorSize, live, lastOp, prevOp, firstAddr>>
genVars   == <<seed, genA, genB, outsA, outsB>>
cfgVars   == <<args, scale_factor, stderr>>
outVars   == <<stdout, printed>>
timeVars  == <<ran, returned, total_time>>
mainVars  == <<cfgVars, outVars, timeVars, mainPc>>
apVars    == <<apI, apRng, raw_ptrs, allocs, deallocs>>
gcVars    == <<gcTimer, counter, handles, gcI, result>>
workerVars == <<wPc, wI, wRng, wSize, wSizes>>
poolVars  == <<poolI, poolBatch, arena_ptrs, poolOk, poolResets>>
miVars    == <<large_array1, large_array2, miI, miRng>>
runVars   == <<mainVars, apVars, gcVars, workerVars, poolVars, miVars>>
arenaHistory == <<overflow_checks, ctorSize, live, lastOp, prevOp, firstAddr>>

(***************************************************************************)
(* Bounds of the model.                                                    *)
(***************************************************************************)
\* usize is modelled WordBits wide, so that size + 7 and used + aligned_size
\* wrap as they do on the 64-bit word.
WordBits == 12
\* Arena::new is called with a size in 0..MaxCap.
MaxCap == 16
\* allocate is called with a size in 0..MaxSize, or one of LargeSizes.
MaxSize == 9
\* At most MaxAllocs successful allocations between two resets.
MaxAllocs == 3

\* Generators are seeded with a value in 0..MaxSeed (the program seeds with
\* 42 and 42 + thread_id).
MaxSeed == 45
\* At most MaxDraws calls of next() on each generator.
MaxDraws == 3
\* Stands for the 2500 of main's gc_stress_test(4, 2500 * scale_factor): a
\* worker runs GcIterationsUnit * scale_factor iterations.
GcIterationsUnit == 1
\* allocation_patterns_test runs ApIterationsUnit * scale_factor iterations
\* (10000 * scale_factor in the program).
ApIterationsUnit == 2
\* memory_pool_test runs PoolIterationsUnit * scale_factor iterations
\* (8000 * scale_factor in the program).
PoolIterationsUnit == 10
\* memory_intensive_test has buffers of MiBytesUnit * scale_factor bytes
\* (100 * scale_factor * 1024 * 1024 in the program).
MiBytesUnit == 66
\* ... and makes MiRandomAccesses random accesses (10000 in the program).
MiRandomAccesses == 2
\* The elapsed times a workload can return, in units of 0.001 ms.
ElapsedChoices == {400, 1001}

Word == 2 ^ WordBits
UsizeMax == Word - 1

\* The largest size for which size + 7 fits the word, the smallest for which
\* it does not, and the largest word.
LargeSizes == {UsizeMax - 7, UsizeMax - 6, UsizeMax}

\* The sizes allocate is called with.
Sizes == (0 .. MaxSize) \cup LargeSizes

(***************************************************************************)
(* Option<*mut u8>, with the pointer as its offset from buffer.as_mut_ptr(),*)
(* and a third outcome for a call that panics instead of returning.        *)
(***************************************************************************)
Some(off) == [tag |-> "Some", ptr |-> off]
None      == [tag |-> "None", ptr |-> 0]
Panic     == [tag |-> "Panic", ptr |-> 0]

\* round_up(size, 8) over the mathematical integers (the spec's wording).
RoundUp8(size) == ((size + 7) \div 8) * 8

(***************************************************************************)
(* Arena                                                                   *)
(***************************************************************************)
Arena_new(size) == [len |-> size, used |-> 0]

\* let aligned_size = (size + 7) & !7;  on a WordBits-wide usize
AlignedSizeUnaligned(size) == size % Word
AlignedSize(size) ==
    LET s == (size + 7) % Word
    IN  s - (s % 8)

\* size + 7, or self.used + aligned_size, exceeds the word
AllocateOverflows(a, size) ==
    \/ size + 7 > UsizeMax
    \/ a.used + AlignedSize(size) > UsizeMax

\* if self.used + aligned_size > self.buffer.len() { return None; }
DoesNotFitUnchecked(a, aligned_size) == FALSE
DoesNotFit(a, aligned_size) ==
    (a.used + aligned_size) % Word > a.len

\* Arena::allocate: the arena afterwards and the value returned. With
\* overflow checks compiled in, an overflowing addition panics; without,
\* it wraps.
Arena_allocate_bump_first(a, size, checks) ==
    LET aligned_size == AlignedSize(size)
        bumped == [a EXCEPT !.used = (a.used + aligned_size) % Word]
    IN  IF checks /\ AllocateOverflows(a, size)
        THEN [arena |-> a, ret |-> Panic]
        ELSE IF DoesNotFit(a, aligned_size)
        THEN [arena |-> bumped, ret |-> None]
        ELSE [arena |-> bumped, ret |-> Some(a.used)]
Arena_allocate(a, size, checks) ==
    LET aligned_size == AlignedSize(size)
    IN  IF checks /\ AllocateOverflows(a, size)
        THEN [arena |-> a, ret |-> Panic]
        ELSE IF DoesNotFit(a, aligned_size)
        THEN [arena |-> a, ret |-> None]
        ELSE [arena |-> [a EXCEPT !.used = (a.used + aligned_size) % Word],
              ret   |-> Some(a.used)]

\* Arena::reset
Arena_reset_keep(a) == a
Arena_reset(a) == [a EXCEPT !.used = 0]

(***************************************************************************)
(* XorShift64. A u64 is the set of the positions of its 1 bits, so that    *)
(* shifts drop the bits that leave the 64-bit word.                        *)
(***************************************************************************)
U64Bits == 64

\* The u64 with value n, for 0 <= n < 2^16.
BitsOf(n) == {i \in 0 .. 15 : (n \div (2 ^ i)) % 2 = 1}

Xor(a, b) == (a \ b) \cup (b \ a)
Shl(a, k) == {i + k : i \in {j \in a : j + k < U64Bits}}
Shr(a, k) == {i - k : i \in {j \in a : j >= k}}

XorShift64_new(s) == [state |-> BitsOf(s)]

\* XorShift64::next: the generator afterwards and the value returned.
XorShift64_next_entropy(g) ==
    LET s0 == Xor(g.state, BitsOf(Len(outsA) + Len(outsB)))
        s1 == Xor(s0, Shl(s0, 13))
        s2 == Xor(s1, Shr(s1, 7))
        s3 == Xor(s2, Shl(s2, 17))
    IN  [gen |-> [state |-> s3], ret |-> s3]
XorShift64_next(g) ==
    LET s1 == Xor(g.state, Shl(g.state, 13))
        s2 == Xor(s1, Shr(s1, 7))
        s3 == Xor(s2, Shl(s2, 17))
    IN  [gen |-> [state |-> s3], ret |-> s3]

(***************************************************************************)
(* main and its workloads: state                                           *)
(***************************************************************************)
\* main calls gc_stress_test(4, ...): thread ids 0..3
num_threads == 4
Threads == 0 .. (num_threads - 1)

Unread == [tag |-> "unread", val |-> 0]
Read(v) == [tag |-> "read", val |-> v]

\* Nothing has been printed yet.
NotPrinted == [int |-> 0 - 1, frac |-> 0]

\* The null pointer; the blocks of the system allocator are numbered from 1.
NullPtr == 0

ApIdle ==
    /\ apI = 0
    /\ apRng = XorShift64_new(0)
    /\ raw_ptrs = <<>>
    /\ allocs = <<>>
    /\ deallocs = <<>>

GcIdle ==
    /\ gcTimer = "unset"
    /\ counter = 0
    /\ handles = <<>>
    /\ gcI = 0
    /\ result = Unread

WorkersIdle ==
    /\ wPc = [t \in Threads |-> "unspawned"]
    /\ wI = [t \in Threads |-> 0]
    /\ wRng = [t \in Threads |-> XorShift64_new(0)]
    /\ wSize = [t \in Threads |-> 0]
    /\ wSizes = [t \in Threads |-> <<>>]

PoolIdle ==
    /\ poolI = 0
    /\ poolBatch = 0
    /\ arena_ptrs = <<>>
    /\ poolOk = 0
    /\ poolResets = 0

MiIdle ==
    /\ large_array1 = <<>>
    /\ large_array2 = <<>>
    /\ miI = 0
    /\ miRng = XorShift64_new(0)

RunIdle ==
    /\ args = <<>>
    /\ scale_factor = 1
    /\ stderr = 0
    /\ stdout = 0
    /\ printed = NotPrinted
    /\ mainPc = "idle"
    /\ ran = <<>>
    /\ returned = <<>>
    /\ total_time = 0
    /\ ApIdle
    /\ GcIdle
    /\ WorkersIdle
    /\ PoolIdle
    /\ MiIdle

NoPrevOp == [op |-> "none", used |-> 0, tag |-> "None"]
NoOp == [op |-> "new", size |-> 0, ret |-> None, before |-> Arena_new(0)]

GenIdle ==
    /\ seed = 0
    /\ genA = [state |-> {}]
    /\ genB = [state |-> {}]
    /\ outsA = <<>>
    /\ outsB = <<>>

ArenaIdle ==
    /\ arena = Arena_new(0)
    /\ overflow_checks = FALSE
    /\ ctorSize = 0
    /\ live = <<>>
    /\ lastOp = NoOp
    /\ prevOp = NoPrevOp
    /\ firstAddr = None

InitArena ==
    /\ ctorSize \in 0 .. MaxCap
    /\ arena = Arena_new(ctorSize)
    /\ overflow_checks \in BOOLEAN
    /\ live = <<>>
    /\ lastOp = [NoOp EXCEPT !.size = ctorSize, !.before = arena]
    /\ prevOp = NoPrevOp
    /\ firstAddr = None
    /\ GenIdle
    /\ RunIdle

\* The process is alive: no call has panicked.
ArenaAlive == lastOp.ret.tag # "Panic"

Allocate(size) ==
    /\ ArenaAlive
    /\ Len(live) < MaxAllocs
    /\ LET r == Arena_allocate(arena, size, overflow_checks)
       IN  /\ arena' = r.arena
           /\ lastOp' = [op |-> "allocate", size |-> size, ret |-> r.ret,
                         before |-> arena]
           /\ live' = IF r.ret.tag = "Some"
                      THEN Append(live, [off |-> r.ret.ptr, size |-> size])
                      ELSE live
           /\ firstAddr' = IF r.ret.tag = "Some" /\ firstAddr.tag = "None"
                           THEN r.ret ELSE firstAddr
    /\ prevOp' = [op |-> lastOp.op, used |-> lastOp.before.used,
                   tag |-> lastOp.ret.tag]
    /\ UNCHANGED <<overflow_checks, ctorSize>>

Reset ==
    /\ ArenaAlive
    /\ arena' = Arena_reset(arena)
    /\ lastOp' = [op |-> "reset", size |-> 0, ret |-> None, before |-> arena]
    /\ live' = <<>>
    /\ prevOp' = [op |-> lastOp.op, used |-> lastOp.before.used,
                   tag |-> lastOp.ret.tag]
    /\ UNCHANGED <<overflow_checks, ctorSize, firstAddr>>

NextArena ==
    \/ \E size \in Sizes : Allocate(size) /\ UNCHANGED <<genVars, runVars>>
    \/ Reset /\ UNCHANGED <<genVars, runVars>>

vars == <<arenaVars, genVars, runVars>>

SpecArena == InitArena /\ [][NextArena]_vars

\* Two generators constructed independently with the same seed.
InitGen ==
    /\ seed \in 0 .. MaxSeed
    /\ genA = XorShift64_new(seed)
    /\ genB = XorShift64_new(seed)
    /\ outsA = <<>>
    /\ outsB = <<>>
    /\ ArenaIdle
    /\ RunIdle

NextA ==
    /\ Len(outsA) < MaxDraws
    /\ LET r == XorShift64_next(genA)
       IN  /\ genA' = r.gen
           /\ outsA' = Append(outsA, r.ret)
    /\ UNCHANGED <<seed, genB, outsB>>

NextB ==
    /\ Len(outsB) < MaxDraws
    /\ LET r == XorShift64_next(genB)
       IN  /\ genB' = r.gen
           /\ outsB' = Append(outsB, r.ret)
    /\ UNCHANGED <<seed, genA, outsA>>

NextGen ==
    \/ NextA /\ UNCHANGED <<arenaVars, runVars>>
    \/ NextB /\ UNCHANGED <<arenaVars, runVars>>

SpecGen == InitGen /\ [][NextGen]_vars

(***************************************************************************)
(* main: the command line                                                  *)
(***************************************************************************)
DigitChars == <<"0", "1", "2", "3", "4", "5", "6", "7", "8", "9">>
IsDigit(c) == \E d \in 0 .. 9 : DigitChars[d + 1] = c
DigitValue(c) == CHOOSE d \in 0 .. 9 : DigitChars[d + 1] = c

Ok(v) == [tag |-> "Ok", val |-> v]
Err   == [tag |-> "Err", val |-> 0]

\* The decimal value of a sequence of digits, Err when it exceeds the word.
RECURSIVE ParseDigits(_, _)
ParseDigits(cs, acc) ==
    IF cs = <<>> THEN Ok(acc)
    ELSE IF ~IsDigit(Head(cs)) THEN Err
    ELSE LET v == acc * 10 + DigitValue(Head(cs))
         IN  IF v > UsizeMax THEN Err ELSE ParseDigits(Tail(cs), v)

\* str::parse::<usize>: an optional '+', then one or more decimal digits;
\* no sign '-' for an unsigned type, no surrounding blanks.
ParseUsize(str) ==
    IF str = <<>> THEN Err
    ELSE IF Head(str) = "+"
         THEN IF Tail(str) = <<>> THEN Err ELSE ParseDigits(Tail(str), 0)
         ELSE ParseDigits(str, 0)

\* The arguments the program is started with: none, or one string.
\* "", "x", "0", "1", "2", "+1", "-1", "2x", and a number beyond the word.
ArgStrings ==
    { <<>>, <<"x">>, <<"0">>, <<"1">>, <<"2">>, <<"+", "1">>, <<"-", "1">>,
      <<"2", "x">>, <<"9", "9", "9", "9">> }
ArgLists == {<<>>} \cup {<<str>> : str \in ArgStrings}

InitRun ==
    /\ args \in ArgLists
    /\ scale_factor = 1
    /\ stderr = 0
    /\ stdout = 0
    /\ mainPc = "parse"
    /\ ran = <<>>
    /\ total_time = 0
    /\ returned = <<>>
    /\ printed = NotPrinted
    /\ GcIdle
    /\ WorkersIdle
    /\ ApIdle
    /\ PoolIdle
    /\ MiIdle
    /\ ArenaIdle
    /\ GenIdle

\* The process runs until main returns or panics, or the process aborts;
\* its threads die with it.
ProcessAlive == mainPc \notin {"exit", "panicked", "aborted"}

\* main, lines 275-289: args.len() > 1 counts the program name.
MainParse ==
    /\ mainPc = "parse"
    /\ IF Len(args) > 0
       THEN LET parsed == ParseUsize(args[1])
            IN  IF parsed.tag = "Ok"
                THEN /\ scale_factor' = IF parsed.val > 0 THEN parsed.val
                                        ELSE scale_factor
                     /\ stderr' = stderr
                ELSE /\ scale_factor' = scale_factor
                     /\ stderr' = stderr + 1
       ELSE UNCHANGED <<scale_factor, stderr>>
    /\ mainPc' = "allocation_patterns"
    /\ UNCHANGED <<args, outVars, timeVars, gcVars, workerVars,
                   apVars, poolVars, miVars, arenaVars>>

\* total_time += <workload>(...)
AccumulateOverwrite(total, e) == e
Accumulate(total, e) == total + e

\* A workload returns its elapsed time e to main, which adds it to
\* total_time and goes on to the next statement.
Return(name, next, e) ==
    /\ mainPc' = next
    /\ ran' = Append(ran, name)
    /\ returned' = Append(returned, e)
    /\ total_time' = Accumulate(total_time, e)

\* {:.3}: the integer part, a point and three decimals. Durations are
\* counted in units of 0.001 ms, the resolution that is printed.
Format3(v) == [int |-> v \div 1000, frac |-> v % 1000]

\* println!("{:.3}", total_time) and the return from main
MainPrintln ==
    /\ mainPc = "println"
    /\ stdout' = stdout + 1
    /\ printed' = Format3(total_time)
    /\ mainPc' = "exit"
    /\ UNCHANGED <<cfgVars, timeVars, gcVars, workerVars,
                   apVars, poolVars, miVars, arenaVars>>

(***************************************************************************)
(* allocation_patterns_test(10000 * scale_factor)                          *)
(***************************************************************************)
ap_iterations == ApIterationsUnit * scale_factor

\* The value of the low 9 bits of a u64: x % 512
Mod512(x) ==
    LET Bit(i) == IF i \in x THEN 2 ^ i ELSE 0
    IN  Bit(0) + Bit(1) + Bit(2) + Bit(3) + Bit(4) + Bit(5) + Bit(6) + Bit(7)
        + Bit(8)

\* let start = Instant::now(); the sequential phase (vectors of
\* 64 + i % 256 bytes, pushed and cleared); let mut rng = XorShift64::new(42);
ApSequential ==
    /\ mainPc = "allocation_patterns"
    /\ apRng' = XorShift64_new(42)
    /\ apI' = 0
    /\ raw_ptrs' = <<>>
    /\ allocs' = <<>>
    /\ deallocs' = <<>>
    /\ mainPc' = "ap_alloc"
    /\ UNCHANGED <<cfgVars, outVars, timeVars, gcVars,
                   workerVars, poolVars, miVars, arenaVars>>

\* One iteration of the allocation loop; ptr is what std::alloc::alloc
\* returned: a fresh block, or null when the allocator is out of memory.
\* The pair is pushed without a look at ptr.
ApAllocStep(ptr) ==
    /\ mainPc = "ap_alloc"
    /\ apI < ap_iterations
    /\ LET r == XorShift64_next(apRng)
           size == 32 + Mod512(r.ret)
       IN  /\ apRng' = r.gen
           /\ raw_ptrs' = Append(raw_ptrs, [ptr |-> ptr, size |-> size])
           /\ allocs' = Append(allocs, [ptr |-> ptr, size |-> size])
    /\ apI' = apI + 1
    /\ UNCHANGED <<cfgVars, outVars, timeVars, mainPc, deallocs, gcVars,
                   workerVars, poolVars, miVars, arenaVars>>

\* The allocator hands out the block numbered apI + 1 (blocks are freed
\* only after the loop, so no address comes twice).
ApAlloc == ApAllocStep(apI + 1)

\* The allocator is out of memory and returns null (at most once in a run).
ApAllocNull ==
    /\ \A k \in 1 .. Len(allocs) : allocs[k].ptr # NullPtr
    /\ ApAllocStep(NullPtr)

\* The orders raw_ptrs.shuffle(&mut thread_rng()) can leave s in.
AnyOrderWithRepeats(s) ==
    {[k \in 1 .. Len(s) |-> s[f[k]]] : f \in [1 .. Len(s) -> 1 .. Len(s)]}
Shuffles(s) ==
    {[k \in 1 .. Len(s) |-> s[f[k]]] :
        f \in {g \in [1 .. Len(s) -> 1 .. Len(s)] :
                  \A a, b \in 1 .. Len(s) : a # b => g[a] # g[b]}}

\* The loop ends; raw_ptrs.shuffle(&mut thread_rng());
ApShuffle ==
    /\ mainPc = "ap_alloc"
    /\ apI >= ap_iterations
    /\ raw_ptrs' \in Shuffles(raw_ptrs)
    /\ apI' = 0
    /\ mainPc' = "ap_dealloc"
    /\ UNCHANGED <<cfgVars, outVars, timeVars, apRng, allocs,
                   deallocs, gcVars, workerVars, poolVars, miVars, arenaVars>>

\* for (ptr, layout) in raw_ptrs { dealloc(ptr, layout) }: one iteration,
\* after which main is at next.
ApDeallocStep(next) ==
    /\ mainPc = "ap_dealloc"
    /\ apI < Len(raw_ptrs)
    /\ deallocs' = Append(deallocs, raw_ptrs[apI + 1])
    /\ apI' = apI + 1
    /\ mainPc' = next
    /\ UNCHANGED <<cfgVars, outVars, timeVars, apRng, raw_ptrs,
                   allocs, gcVars, workerVars, poolVars, miVars, arenaVars>>

\* dealloc returns. With a null pointer the call is undefined behaviour,
\* and returning having done nothing (free(NULL)) is one of its outcomes.
ApDealloc == ApDeallocStep("ap_dealloc")

\* The other outcome of dealloc(null, layout): the process dies in the call.
ApDeallocNullCrash ==
    /\ mainPc = "ap_dealloc"
    /\ apI < Len(raw_ptrs)
    /\ raw_ptrs[apI + 1].ptr = NullPtr
    /\ ApDeallocStep("aborted")

ApDeallocDone ==
    /\ mainPc = "ap_dealloc"
    /\ apI >= Len(raw_ptrs)
    /\ mainPc' = "ap_elapsed"
    /\ UNCHANGED <<cfgVars, outVars, timeVars, apVars, gcVars,
                   workerVars, poolVars, miVars, arenaVars>>

\* let duration = start.elapsed(); and the return to main (the locals die)
ApReturn ==
    /\ mainPc = "ap_elapsed"
    /\ \E e \in ElapsedChoices : Return("allocation_patterns", "gc_start", e)
    /\ apI' = 0
    /\ apRng' = XorShift64_new(0)
    /\ raw_ptrs' = <<>>
    /\ allocs' = <<>>
    /\ deallocs' = <<>>
    /\ UNCHANGED <<cfgVars, outVars, gcVars, workerVars,
                   poolVars, miVars, arenaVars>>

(***************************************************************************)
(* gc_stress_test(4, 2500 * scale_factor) on the main thread               *)
(***************************************************************************)
iterations_per_thread == GcIterationsUnit * scale_factor

\* let start = Instant::now(); let counter = ...new(0); let mut handles = ...
GcStart ==
    /\ mainPc = "gc_start"
    /\ gcTimer' = "started"
    /\ counter' = 0
    /\ handles' = <<>>
    /\ gcI' = 0
    /\ mainPc' = "gc_spawn"
    /\ UNCHANGED <<cfgVars, outVars, timeVars, result,
                   workerVars, apVars, poolVars, miVars, arenaVars>>

\* for i in 0..num_threads { ... thread::spawn ...; handles.push(handle); }
GcSpawn ==
    /\ mainPc = "gc_spawn"
    /\ gcI < num_threads
    /\ wPc' = [wPc EXCEPT ![gcI] = "entry"]
    /\ handles' = Append(handles, gcI)
    /\ gcI' = gcI + 1
    /\ UNCHANGED <<mainVars, gcTimer, counter, result, wI, wRng, wSize,
                   wSizes, apVars, poolVars, miVars, arenaVars>>

GcSpawnDone ==
    /\ mainPc = "gc_spawn"
    /\ gcI >= num_threads
    /\ gcI' = 0
    /\ mainPc' = "gc_join"
    /\ UNCHANGED <<cfgVars, outVars, timeVars, gcTimer, counter,
                   handles, result, workerVars, apVars, poolVars, miVars,
                   arenaVars>>

\* handle.join() returns once the thread has ended
JoinNeverReturns(t) == FALSE
JoinReturnsAtOnce(t) == TRUE
JoinReturns(t) == wPc[t] \in {"finished", "panicked"}

\* ... with Err when the thread panicked
JoinResult(t) == IF wPc[t] = "panicked" THEN Err ELSE Ok(0)

\* .unwrap() panics on Err
UnwrapIgnoresErr(r) == FALSE
UnwrapPanics(r) == r.tag = "Err"

\* for handle in handles { handle.join().unwrap(); }
GcJoin ==
    /\ mainPc = "gc_join"
    /\ gcI < Len(handles)
    /\ JoinReturns(handles[gcI + 1])
    /\ IF UnwrapPanics(JoinResult(handles[gcI + 1]))
       THEN /\ mainPc' = "panicked"
            /\ gcI' = gcI
       ELSE /\ mainPc' = mainPc
            /\ gcI' = gcI + 1
    /\ UNCHANGED <<cfgVars, outVars, timeVars, gcTimer, counter,
                   handles, result, workerVars, apVars, poolVars, miVars,
                   arenaVars>>

GcJoinDone ==
    /\ mainPc = "gc_join"
    /\ gcI >= Len(handles)
    /\ mainPc' = "gc_load"
    /\ UNCHANGED <<cfgVars, outVars, timeVars, gcVars,
                   workerVars, apVars, poolVars, miVars, arenaVars>>

\* let result = counter.load(Ordering::Relaxed);
GcLoad ==
    /\ mainPc = "gc_load"
    /\ result' = Read(counter)
    /\ mainPc' = "gc_elapsed"
    /\ UNCHANGED <<cfgVars, outVars, timeVars, gcTimer, counter,
                   handles, gcI, workerVars, apVars, poolVars, miVars,
                   arenaVars>>

\* let duration = start.elapsed(); and the return to main
GcElapsed ==
    /\ mainPc = "gc_elapsed"
    /\ gcTimer' = "elapsed"
    /\ \E e \in ElapsedChoices : Return("gc_stress", "cache_locality", e)
    /\ UNCHANGED <<cfgVars, outVars, counter, handles, gcI,
                   result, workerVars, apVars, poolVars, miVars, arenaVars>>

(***************************************************************************)
(* gc_stress_worker(thread_id, iterations, counter) on thread t            *)
(***************************************************************************)
\* The value of the low 10 bits of a u64: x % 1024
Mod1024(x) ==
    LET Bit(i) == IF i \in x THEN 2 ^ i ELSE 0
    IN  Bit(0) + Bit(1) + Bit(2) + Bit(3) + Bit(4) + Bit(5) + Bit(6) + Bit(7)
        + Bit(8) + Bit(9)

\* for i in 0..iterations
LoopContinuesFromOne(i, iterations) == i + 1 < iterations
LoopContinues(i, iterations) == i < iterations

\* counter.fetch_add(1, Ordering::Relaxed): one atomic read-modify-write
fetch_add(c, v) == (c + v) % Word

\* The seed of thread t's generator: 42 + thread_id as u64
WorkerSeedFromCounter(t) == 42 + counter
WorkerSeed(t) == 42 + t

\* let mut rng = XorShift64::new(42 + thread_id as u64);
WorkerEntry(t) ==
    /\ ProcessAlive
    /\ wPc[t] = "entry"
    /\ wRng' = [wRng EXCEPT ![t] = XorShift64_new(WorkerSeed(t))]
    /\ wI' = [wI EXCEPT ![t] = 0]
    /\ wPc' = [wPc EXCEPT ![t] = "loop"]
    /\ UNCHANGED <<mainVars, gcVars, wSize, wSizes, apVars, poolVars, miVars,
                   arenaVars>>

\* One iteration up to the increment: draw the size, allocate the buffer,
\* fill it and sum every 8th byte; all of it local to the thread.
WorkerIterate(t) ==
    /\ ProcessAlive
    /\ wPc[t] = "loop"
    /\ LoopContinues(wI[t], iterations_per_thread)
    /\ LET r == XorShift64_next(wRng[t])
           size == 16 + Mod1024(r.ret)
       IN  /\ wRng' = [wRng EXCEPT ![t] = r.gen]
           /\ wSize' = [wSize EXCEPT ![t] = size]
           /\ wSizes' = [wSizes EXCEPT ![t] = Append(wSizes[t], size)]
    /\ wPc' = [wPc EXCEPT ![t] = "fetch_add"]
    /\ UNCHANGED <<mainVars, gcVars, wI, apVars, poolVars, miVars, arenaVars>>

\* counter.fetch_add(1, Relaxed); the buffer is dropped; next i
WorkerFetchAdd(t) ==
    /\ ProcessAlive
    /\ wPc[t] = "fetch_add"
    /\ counter' = fetch_add(counter, 1)
    /\ wI' = [wI EXCEPT ![t] = wI[t] + 1]
    /\ wPc' = [wPc EXCEPT ![t] = "loop"]
    /\ UNCHANGED <<mainVars, gcTimer, handles, gcI, result, wRng, wSize,
                   wSizes, apVars, poolVars, miVars, arenaVars>>

\* the loop ends and the thread's closure returns
WorkerReturn(t) ==
    /\ ProcessAlive
    /\ wPc[t] = "loop"
    /\ ~LoopContinues(wI[t], iterations_per_thread)
    /\ wPc' = [wPc EXCEPT ![t] = "finished"]
    /\ UNCHANGED <<mainVars, gcVars, wI, wRng, wSize, wSizes, apVars,
                   poolVars, miVars, arenaVars>>

\* The thread's closure panics in an iteration instead of completing it.
WorkerPanic(t) ==
    /\ ProcessAlive
    /\ wPc[t] = "loop"
    /\ LoopContinues(wI[t], iterations_per_thread)
    /\ wPc' = [wPc EXCEPT ![t] = "panicked"]
    /\ UNCHANGED <<mainVars, gcVars, wI, wRng, wSize, wSizes, apVars,
                   poolVars, miVars, arenaVars>>

(***************************************************************************)
(* cache_locality_test(5000 * scale_factor): sums over a local vector,     *)
(* sequential, strided and at random indices; no shared state.             *)
(***************************************************************************)
CacheLocalityTest ==
    /\ mainPc = "cache_locality"
    /\ \E e \in ElapsedChoices : Return("cache_locality", "memory_pool", e)
    /\ UNCHANGED <<cfgVars, outVars, gcVars, workerVars, apVars,
                   poolVars, miVars, arenaVars>>

(***************************************************************************)
(* memory_pool_test(8000 * scale_factor)                                   *)
(***************************************************************************)
pool_iterations == PoolIterationsUnit * scale_factor

\* The size of every region the workload asks the arena for
PoolBlock == 128
\* The capacity beyond the demand of the first pass
PoolSlack == 1024
\* for _ in 0..10
PoolBatches == 10

\* Arena::new(iterations * 128 + 1024)
PoolCapacityNoFactor(iterations) == (iterations + PoolSlack) % Word
PoolCapacity(iterations) == (iterations * PoolBlock + PoolSlack) % Word

\* let start = Instant::now(); the standard-allocation phase (vectors of
\* 128 bytes, pushed and cleared); let mut arena = Arena::new(...);
PoolStart ==
    /\ mainPc = "memory_pool"
    /\ arena' = Arena_new(PoolCapacity(pool_iterations))
    /\ arena_ptrs' = <<>>
    /\ poolI' = 0
    /\ poolBatch' = 0
    /\ poolOk' = 0
    /\ poolResets' = 0
    /\ mainPc' = "pool_first"
    /\ UNCHANGED <<cfgVars, outVars, timeVars, gcVars,
                   workerVars, apVars, miVars, arenaHistory>>

\* if let Some(ptr) = arena.allocate(128) { write_bytes(...); <push> }
\* None is not looked at: the loop goes on.
PoolAllocate(keep) ==
    /\ LET r == Arena_allocate(arena, PoolBlock, overflow_checks)
       IN  /\ arena' = r.arena
           /\ IF r.ret.tag = "Some"
              THEN /\ arena_ptrs' = IF keep THEN Append(arena_ptrs, r.ret.ptr)
                                    ELSE arena_ptrs
                   /\ poolOk' = poolOk + 1
              ELSE /\ arena_ptrs' = arena_ptrs
                   /\ poolOk' = poolOk
    /\ poolI' = poolI + 1
    /\ UNCHANGED <<cfgVars, outVars, timeVars, mainPc, poolBatch, poolResets,
                   gcVars, workerVars, apVars, miVars, arenaHistory>>

\* for i in 0..iterations: one iteration of the first pass
PoolAllocFirst ==
    /\ mainPc = "pool_first"
    /\ poolI < pool_iterations
    /\ PoolAllocate(TRUE)

\* the first pass ends; arena.reset();
PoolResetFirst ==
    /\ mainPc = "pool_first"
    /\ poolI >= pool_iterations
    /\ arena' = Arena_reset(arena)
    /\ poolResets' = poolResets + 1
    /\ poolI' = 0
    /\ poolBatch' = 0
    /\ mainPc' = "pool_batch"
    /\ UNCHANGED <<cfgVars, outVars, timeVars, arena_ptrs,
                   poolOk, gcVars, workerVars, apVars, miVars, arenaHistory>>

\* for i in 0..iterations / 10: one iteration of the current batch
PoolAllocBatch ==
    /\ mainPc = "pool_batch"
    /\ poolBatch < PoolBatches
    /\ poolI < pool_iterations \div 10
    /\ PoolAllocate(FALSE)

\* the batch ends; arena.reset(); next batch
PoolResetBatch ==
    /\ mainPc = "pool_batch"
    /\ poolBatch < PoolBatches
    /\ poolI >= pool_iterations \div 10
    /\ arena' = Arena_reset(arena)
    /\ poolResets' = poolResets + 1
    /\ poolI' = 0
    /\ poolBatch' = poolBatch + 1
    /\ UNCHANGED <<cfgVars, outVars, timeVars, mainPc,
                   arena_ptrs, poolOk, gcVars, workerVars, apVars, miVars,
                   arenaHistory>>

PoolBatchesDone ==
    /\ mainPc = "pool_batch"
    /\ poolBatch >= PoolBatches
    /\ mainPc' = "pool_elapsed"
    /\ UNCHANGED <<cfgVars, outVars, timeVars, poolVars, gcVars,
                   workerVars, apVars, miVars, arenaVars>>

\* let duration = start.elapsed(); and the return to main (the arena and
\* the other locals die)
PoolReturn ==
    /\ mainPc = "pool_elapsed"
    /\ \E e \in ElapsedChoices : Return("memory_pool", "memory_intensive", e)
    /\ arena' = Arena_new(0)
    /\ arena_ptrs' = <<>>
    /\ poolI' = 0
    /\ poolBatch' = 0
    /\ poolOk' = 0
    /\ poolResets' = 0
    /\ UNCHANGED <<cfgVars, outVars, gcVars, workerVars, apVars,
                   miVars, arenaHistory>>

(***************************************************************************)
(* memory_intensive_test(100 * scale_factor)                               *)
(***************************************************************************)
\* let size = large_size_mb * 1024 * 1024, for large_size_mb = 100 * scale
mi_size == MiBytesUnit * scale_factor

\* for i in (0..size).step_by(4096)
MiStride == 4096
\* (i & 0xFF) as u8, and the range of a u8
ByteRange == 256
\* large_array2[offset] is read and written at offset < size - 64
MiMargin == 64

\* The value of bits 16k .. 16k + 15 of a u64
Chunk16(x, k) ==
    LET Bit(i) == IF 16 * k + i \in x THEN 2 ^ i ELSE 0
    IN  Bit(0) + Bit(1) + Bit(2) + Bit(3) + Bit(4) + Bit(5) + Bit(6) + Bit(7)
        + Bit(8) + Bit(9) + Bit(10) + Bit(11) + Bit(12) + Bit(13) + Bit(14)
        + Bit(15)

\* x % n for a u64 x and 0 < n < 2^15, by Horner's rule on its four
\* 16-bit digits, without leaving the range of the integers
ModU64(x, n) ==
    LET B == (2 ^ 16) % n
        d3 == Chunk16(x, 3) % n
        d2 == (d3 * B + Chunk16(x, 2)) % n
        d1 == (d2 * B + Chunk16(x, 1)) % n
    IN  (d1 * B + Chunk16(x, 0)) % n

\* vec![0u8; size]
ZeroedVec(size) == [i \in 0 .. size - 1 |-> 0]

\* for i in (0..size).step_by(4096) { a[i] = (i & 0xFF) as u8; }
SequentialWrite(a) ==
    [i \in DOMAIN a |-> IF i % MiStride = 0 THEN i % ByteRange ELSE a[i]]

\* dst.copy_from_slice(src): every byte of src, at the same index
copy_from_slice_incrementing(dst, src) ==
    [i \in DOMAIN dst |-> (src[i] + 1) % ByteRange]
copy_from_slice(dst, src) == [i \in DOMAIN dst |-> src[i]]

\* u8::wrapping_add
wrapping_add(a, b) == (a + b) % ByteRange

\* let start = Instant::now(); let size = ...; the two zeroed buffers
MiAlloc ==
    /\ mainPc = "memory_intensive"
    /\ large_array1' = ZeroedVec(mi_size)
    /\ large_array2' = ZeroedVec(mi_size)
    /\ mainPc' = "mi_write"
    /\ UNCHANGED <<cfgVars, outVars, timeVars, miI, miRng,
                   gcVars, workerVars, apVars, poolVars, arenaVars>>

\* the strided write into large_array1
MiSequentialWrite ==
    /\ mainPc = "mi_write"
    /\ large_array1' = SequentialWrite(large_array1)
    /\ mainPc' = "mi_copy"
    /\ UNCHANGED <<cfgVars, outVars, timeVars, large_array2,
                   miI, miRng, gcVars, workerVars, apVars, poolVars,
                   arenaVars>>

\* large_array2.copy_from_slice(&large_array1);
MiCopy ==
    /\ mainPc = "mi_copy"
    /\ large_array2' = copy_from_slice(large_array2, large_array1)
    /\ mainPc' = "mi_read"
    /\ UNCHANGED <<cfgVars, outVars, timeVars, large_array1,
                   miI, miRng, gcVars, workerVars, apVars, poolVars,
                   arenaVars>>

\* the strided read of large_array2 into sum; let mut rng = XorShift64::new(42);
MiSequentialRead ==
    /\ mainPc = "mi_read"
    /\ miRng' = XorShift64_new(42)
    /\ miI' = 0
    /\ mainPc' = "mi_random"
    /\ UNCHANGED <<cfgVars, outVars, timeVars, large_array1,
                   large_array2, gcVars, workerVars, apVars, poolVars,
                   arenaVars>>

\* One iteration of the random read-modify-write loop
MiRandomAccess ==
    /\ mainPc = "mi_random"
    /\ miI < MiRandomAccesses
    /\ LET r == XorShift64_next(miRng)
           offset == ModU64(r.ret, mi_size - MiMargin)
       IN  /\ miRng' = r.gen
           /\ large_array2' =
                 [large_array2 EXCEPT
                     ![offset] = wrapping_add(large_array1[offset], 1)]
    /\ miI' = miI + 1
    /\ UNCHANGED <<cfgVars, outVars, timeVars, mainPc,
                   large_array1, gcVars, workerVars, apVars, poolVars,
                   arenaVars>>

MiRandomDone ==
    /\ mainPc = "mi_random"
    /\ miI >= MiRandomAccesses
    /\ mainPc' = "mi_elapsed"
    /\ UNCHANGED <<cfgVars, outVars, timeVars, miVars, gcVars,
                   workerVars, apVars, poolVars, arenaVars>>

\* let duration = start.elapsed(); and the return to main (the locals die)
MiReturn ==
    /\ mainPc = "mi_elapsed"
    /\ \E e \in ElapsedChoices : Return("memory_intensive", "println", e)
    /\ large_array1' = <<>>
    /\ large_array2' = <<>>
    /\ miI' = 0
    /\ miRng' = XorShift64_new(0)
    /\ UNCHANGED <<cfgVars, outVars, gcVars, workerVars, apVars,
                   poolVars, arenaVars>>

NextRun ==
    \/ MainParse /\ UNCHANGED genVars
    \/ ApSequential /\ UNCHANGED genVars
    \/ ApAlloc /\ UNCHANGED genVars
    \/ ApAllocNull /\ UNCHANGED genVars
    \/ ApShuffle /\ UNCHANGED genVars
    \/ ApDealloc /\ UNCHANGED genVars
    \/ ApDeallocNullCrash /\ UNCHANGED genVars
    \/ ApDeallocDone /\ UNCHANGED genVars
    \/ ApReturn /\ UNCHANGED genVars
    \/ GcStart /\ UNCHANGED genVars
    \/ GcSpawn /\ UNCHANGED genVars
    \/ GcSpawnDone /\ UNCHANGED genVars
    \/ GcJoin /\ UNCHANGED genVars
    \/ GcJoinDone /\ UNCHANGED genVars
    \/ GcLoad /\ UNCHANGED genVars
    \/ GcElapsed /\ UNCHANGED genVars
    \/ CacheLocalityTest /\ UNCHANGED genVars
    \/ PoolStart /\ UNCHANGED genVars
    \/ PoolAllocFirst /\ UNCHANGED genVars
    \/ PoolResetFirst /\ UNCHANGED genVars
    \/ PoolAllocBatch /\ UNCHANGED genVars
    \/ PoolResetBatch /\ UNCHANGED genVars
    \/ PoolBatchesDone /\ UNCHANGED genVars
    \/ PoolReturn /\ UNCHANGED genVars
    \/ MiAlloc /\ UNCHANGED genVars
    \/ MiSequentialWrite /\ UNCHANGED genVars
    \/ MiCopy /\ UNCHANGED genVars
    \/ MiSequentialRead /\ UNCHANGED genVars
    \/ MiRandomAccess /\ UNCHANGED genVars
    \/ MiRandomDone /\ UNCHANGED genVars
    \/ MiReturn /\ UNCHANGED genVars
    \/ MainPrintln /\ UNCHANGED genVars
    \/ \E t \in Threads : WorkerEntry(t) /\ UNCHANGED genVars
    \/ \E t \in Threads : WorkerIterate(t) /\ UNCHANGED genVars
    \/ \E t \in Threads : WorkerFetchAdd(t) /\ UNCHANGED genVars
    \/ \E t \in Threads : WorkerReturn(t) /\ UNCHANGED genVars
    \/ \E t \in Threads : WorkerPanic(t) /\ UNCHANGED genVars

SpecRun == InitRun /\ [][NextRun]_vars

\* A run in which no worker panics and the allocator never fails, under a
\* scheduler that lets every thread that can take a step take one.
NextRunNoFault ==
    \/ MainParse /\ UNCHANGED genVars
    \/ ApSequential /\ UNCHANGED genVars
    \/ ApAlloc /\ UNCHANGED genVars
    \/ ApShuffle /\ UNCHANGED genVars
    \/ ApDealloc /\ UNCHANGED genVars
    \/ ApDeallocDone /\ UNCHANGED genVars
    \/ ApReturn /\ UNCHANGED genVars
    \/ GcStart /\ UNCHANGED genVars
    \/ GcSpawn /\ UNCHANGED genVars
    \/ GcSpawnDone /\ UNCHANGED genVars
    \/ GcJoin /\ UNCHANGED genVars
    \/ GcJoinDone /\ UNCHANGED genVars
    \/ GcLoad /\ UNCHANGED genVars
    \/ GcElapsed /\ UNCHANGED genVars
    \/ CacheLocalityTest /\ UNCHANGED genVars
    \/ PoolStart /\ UNCHANGED genVars
    \/ PoolAllocFirst /\ UNCHANGED genVars
    \/ PoolResetFirst /\ UNCHANGED genVars
    \/ PoolAllocBatch /\ UNCHANGED genVars
    \/ PoolResetBatch /\ UNCHANGED genVars
    \/ PoolBatchesDone /\ UNCHANGED genVars
    \/ PoolReturn /\ UNCHANGED genVars
    \/ MiAlloc /\ UNCHANGED genVars
    \/ MiSequentialWrite /\ UNCHANGED genVars
    \/ MiCopy /\ UNCHANGED genVars
    \/ MiSequentialRead /\ UNCHANGED genVars
    \/ MiRandomAccess /\ UNCHANGED genVars
    \/ MiRandomDone /\ UNCHANGED genVars
    \/ MiReturn /\ UNCHANGED genVars
    \/ MainPrintln /\ UNCHANGED genVars
    \/ \E t \in Threads : WorkerEntry(t) /\ UNCHANGED genVars
    \/ \E t \in Threads : WorkerIterate(t) /\ UNCHANGED genVars
    \/ \E t \in Threads : WorkerFetchAdd(t) /\ UNCHANGED genVars
    \/ \E t \in Threads : WorkerReturn(t) /\ UNCHANGED genVars

\* The runs with scale factor 1
InitRunFair == InitRun /\ (args = <<>> \/ args = << <<"1">> >>)

\* Whenever some thread can take a step, a step is eventually taken: the
\* least that a scheduler fair to every thread guarantees.
FairRun == WF_vars(NextRunNoFault)

SpecRunFair == InitRunFair /\ [][NextRunNoFault]_vars /\ FairRun

(***************************************************************************)
(* Properties of the Arena (checked under SpecArena).                      *)
(***************************************************************************)
RECURSIVE SumAligned(_)
SumAligned(s) ==
    IF s = <<>> THEN 0 ELSE RoundUp8(Head(s).size) + SumAligned(Tail(s))

\* The region a successful allocation was handed: [off, off + round_up(size, 8))
Region(e) == e.off .. (e.off + RoundUp8(e.size) - 1)

\* The successful calls since the last reset have aligned sizes that sum to
\* at most the capacity.
FitsCapacity == SumAligned(live) <= arena.len

\* The parts of C1 that do not depend on how addresses are ordered.
DisjointAndAligned ==
    /\ \A i \in 1 .. Len(live) : live[i].off % 8 = 0
    /\ \A i, j \in 1 .. Len(live) :
          i < j => Region(live[i]) \cap Region(live[j]) = {}

\* C1 (as stated): for successful allocate calls without an intervening
\* reset, sizes including 0, aligned sizes summing to at most the capacity,
\* the regions are pairwise disjoint, every offset is a multiple of 8 and the
\* addresses are strictly increasing in call order.
C1_StrictlyIncreasing ==
    FitsCapacity =>
        /\ DisjointAndAligned
        /\ \A i, j \in 1 .. Len(live) : i < j => live[i].off < live[j].off

\* C1 (amended): the regions are pairwise disjoint, every offset is a
\* multiple of 8, and the addresses never decrease in call order; a later
\* address is strictly greater than that of every earlier allocation of a
\* non-zero size, and equal to that of the call just before it when that
\* call had size 0 (allocate(0) returns the cursor without advancing it).
C1_NonDecreasing ==
    FitsCapacity =>
        /\ DisjointAndAligned
        /\ \A i, j \in 1 .. Len(live) :
              i < j => /\ live[i].off <= live[j].off
                       /\ live[i].size > 0 => live[i].off < live[j].off
                       /\ (j = i + 1 /\ live[i].size = 0) =>
                              live[i].off = live[j].off

\* Three successful allocations in a row, a zero-sized one between two
\* non-empty ones, the zero-sized one sharing its address with the next.
C1_Witness ==
    /\ FitsCapacity
    /\ Len(live) = 3
    /\ live[1].size > 0
    /\ live[2].size = 0
    /\ live[3].size > 0
    /\ live[2].off = live[3].off
    /\ live[1].off < live[2].off

\* C2: a reset() followed by a successful allocate(s) returns offset 0, the
\* address of the very first successful allocation made after construction.
C2_ResetReturnsFirstAddress ==
    (lastOp.op = "allocate" /\ lastOp.ret.tag = "Some" /\ prevOp.op = "reset")
        => /\ lastOp.ret = Some(0)
           /\ lastOp.ret = firstAddr

\* A successful allocate of a non-zero size right after a reset of an arena
\* whose cursor earlier allocations had moved.
C2_Witness ==
    /\ lastOp.op = "allocate"
    /\ lastOp.ret.tag = "Some"
    /\ prevOp.op = "reset"
    /\ prevOp.used > 0
    /\ arena.used > 0

\* C3 (as stated): allocate fails exactly when used + round_up(size, 8) > C;
\* otherwise it returns offset `used` and the cursor becomes
\* used + round_up(size, 8); the capacity never changes.
C3_AllocateContract ==
    lastOp.op = "allocate" =>
        LET before == lastOp.before
            need   == before.used + RoundUp8(lastOp.size)
        IN  /\ (lastOp.ret.tag # "Some") <=> (need > before.len)
            /\ lastOp.ret.tag = "Some" =>
                  /\ lastOp.ret.ptr = before.used
                  /\ arena.used = need
            /\ arena.len = before.len

\* C4: 0 <= used <= C and the buffer length is still C, in every state
\* reachable from Arena::new(C) by allocate and reset calls.
C4_CursorWithinCapacity ==
    /\ 0 <= arena.used
    /\ arena.used <= arena.len
    /\ arena.len = ctorSize

\* A failing allocate on an arena that earlier allocations have filled.
C4_Witness ==
    /\ lastOp.op = "allocate"
    /\ lastOp.ret.tag = "None"
    /\ arena.used = arena.len
    /\ arena.len > 0
    /\ Len(live) > 0

\* C5 (as stated): on an arena constructed with capacity 0 every allocate
\* call fails, for every requested size including 0.
C5_ZeroCapacityAlwaysFails ==
    (ctorSize = 0 /\ lastOp.op = "allocate") => lastOp.ret.tag # "Some"

\* C6 (as stated): on a freshly constructed arena of capacity C, allocate
\* fails for every size greater than C, and a successful call returns an
\* offset within [0, C).
C6_OversizeFails ==
    (prevOp.op = "new" /\ lastOp.op = "allocate") =>
        /\ lastOp.size > lastOp.before.len => lastOp.ret.tag # "Some"
        /\ lastOp.ret.tag = "Some" =>
              (0 <= lastOp.ret.ptr /\ lastOp.ret.ptr < lastOp.before.len)

\* C20: a failing allocate leaves the cursor and the buffer length as they
\* were, so that a following allocate of a size that fits the remaining
\* space succeeds and returns the offset the cursor had before the failed
\* call.
C20_FailedAllocateChangesNothing ==
    /\ (lastOp.op = "allocate" /\ lastOp.ret.tag = "None") =>
          arena = lastOp.before
    /\ (prevOp.op = "allocate" /\ prevOp.tag = "None"
            /\ lastOp.op = "allocate") =>
          /\ lastOp.before.used = prevOp.used
          /\ lastOp.before.used + RoundUp8(lastOp.size) <= lastOp.before.len
                => lastOp.ret = Some(prevOp.used)

\* A failed allocate on a partly filled arena, followed by a successful one
\* of a smaller, non-zero size.
C20_Witness ==
    /\ prevOp.op = "allocate"
    /\ prevOp.tag = "None"
    /\ prevOp.used > 0
    /\ lastOp.op = "allocate"
    /\ lastOp.size > 0
    /\ lastOp.ret = Some(prevOp.used)
    /\ arena.used > prevOp.used

(***************************************************************************)
(* Properties of XorShift64 (checked under SpecGen).                       *)
(***************************************************************************)
\* The transition as the claim states it: s ^= s<<13; s ^= s>>7; s ^= s<<17.
ClaimedStep(s) ==
    LET a == Xor(s, Shl(s, 13))
        b == Xor(a, Shr(a, 7))
    IN  Xor(b, Shl(b, 17))

\* The first three outputs for seed 42 in 64-bit arithmetic:
\* 0xa95514aaa, 0xa00aaafdf80202bf, 0x8b13399cd1d1497a.
Seed42Outputs ==
    << {1, 3, 5, 7, 9, 11, 14, 16, 20, 22, 24, 26, 28, 31, 33, 35},
       {0, 1, 2, 3, 4, 5, 7, 9, 17, 27, 28, 29, 30, 31, 32, 34, 35, 36, 37,
        38, 39, 41, 43, 45, 47, 49, 51, 61, 63},
       {1, 3, 4, 5, 6, 8, 11, 14, 16, 20, 22, 23, 24, 28, 30, 31, 34, 35, 36,
        39, 40, 43, 44, 45, 48, 49, 52, 56, 57, 59, 63} >>

\* The state a generator was in before its i-th call of next().
PriorState(outs, i) == IF i = 1 THEN BitsOf(seed) ELSE outs[i - 1]

\* C7: two generators constructed with the same seed return the same
\* values call by call and are in the same state after the same number of
\* calls, whatever the order the calls on the two are made in; each value
\* is the three-xorshift image of the prior state alone (for seed 42 the
\* values of the 64-bit arithmetic).
C7_SameSeedSameSequence ==
    /\ \A i \in 1 .. Len(outsA) :
          /\ i <= Len(outsB) => outsA[i] = outsB[i]
          /\ outsA[i] = ClaimedStep(PriorState(outsA, i))
          /\ (seed = 42 /\ i <= 3) => outsA[i] = Seed42Outputs[i]
    /\ \A i \in 1 .. Len(outsB) :
          outsB[i] = ClaimedStep(PriorState(outsB, i))
    /\ Len(outsA) = Len(outsB) => genA = genB
    /\ Len(outsA) > 0 => genA.state = outsA[Len(outsA)]

\* Both generators, seeded 42, have been drawn from MaxDraws times.
C7_Witness ==
    /\ seed = 42
    /\ Len(outsA) = MaxDraws
    /\ Len(outsB) = MaxDraws
    /\ outsA[1] # outsA[2]

(***************************************************************************)
(* Properties of the concurrent stress workload (checked under SpecRun).   *)
(***************************************************************************)
AllWorkersDone ==
    \A t \in Threads : wPc[t] = "finished" /\ wI[t] = iterations_per_thread

\* C8: with N workers of K iterations each, under every interleaving of
\* their fetch_add(1), the counter read after the joins is exactly N*K.
C8_NoLostUpdates ==
    /\ result.tag = "read" => result.val = num_threads * iterations_per_thread
    /\ mainPc = "gc_load" => counter = num_threads * iterations_per_thread

\* The counter has been read in a run of two iterations per worker.
C8_Witness ==
    /\ result.tag = "read"
    /\ scale_factor = 2
    /\ result.val = num_threads * iterations_per_thread
    /\ result.val > num_threads

\* C9: the counter is read and the elapsed time taken only after every
\* spawned worker has run all its iterations and been joined, and the timer
\* is started before the first spawn.
C9_JoinBarrier ==
    /\ (result.tag = "read" \/ gcTimer = "elapsed") =>
          /\ AllWorkersDone
          /\ Len(handles) = num_threads
          /\ gcI = Len(handles)
    /\ (\E t \in Threads : wPc[t] # "unspawned") => gcTimer # "unset"

\* The counter has been read and the elapsed time taken, after workers that
\* ran two iterations each.
C9_Witness ==
    /\ result.tag = "read"
    /\ gcTimer = "elapsed"
    /\ scale_factor = 2
    /\ AllWorkersDone

\* C10: once a worker has panicked the counter is never read, no later
\* workload runs and no total line is printed, however many other workers
\* completed.
C10_WorkerPanicIsFatal ==
    (\E t \in Threads : wPc[t] = "panicked") =>
        /\ result = Unread
        /\ gcTimer # "elapsed"
        /\ ran = <<"allocation_patterns">>
        /\ stdout = 0
        /\ mainPc \in {"gc_spawn", "gc_join", "panicked"}

\* The last worker panicked after the three before it completed and were
\* joined; main panicked in the unwrap of the last join.
C10_Witness ==
    /\ mainPc = "panicked"
    /\ wPc[num_threads - 1] = "panicked"
    /\ \A t \in Threads : t < num_threads - 1 =>
          wPc[t] = "finished" /\ wI[t] = iterations_per_thread
    /\ gcI = num_threads - 1
    /\ counter >= (num_threads - 1) * iterations_per_thread

(***************************************************************************)
(* Properties of main (checked under SpecRun).                             *)
(***************************************************************************)
\* Whether a string is a decimal integer (an optional sign, then digits),
\* and its value.
RECURSIVE DigitsValue(_, _)
DigitsValue(cs, acc) ==
    IF cs = <<>> THEN acc
    ELSE DigitsValue(Tail(cs), acc * 10 + DigitValue(Head(cs)))

Unsigned(str) ==
    IF str # <<>> /\ Head(str) \in {"+", "-"} THEN Tail(str) ELSE str

ArgIsInteger(str) ==
    /\ Unsigned(str) # <<>>
    /\ \A k \in 1 .. Len(Unsigned(str)) : IsDigit(Unsigned(str)[k])

ArgValue(str) ==
    IF Head(str) = "-" THEN 0 - DigitsValue(Unsigned(str), 0)
    ELSE DigitsValue(Unsigned(str), 0)

\* C12 (as stated): for an argument that is non-numeric or a non-positive
\* integer the scale factor is 1, a warning is written to the error stream
\* and the run is not aborted; for a positive integer the scale factor is
\* that integer and no warning is written.
C12_InvalidArgumentWarns ==
    (mainPc # "parse" /\ Len(args) > 0) =>
        IF ArgIsInteger(args[1]) /\ ArgValue(args[1]) > 0
        THEN scale_factor = ArgValue(args[1]) /\ stderr = 0
        ELSE scale_factor = 1 /\ stderr = 1

(***************************************************************************)
(* Properties of the allocation-pattern workload (checked under SpecRun).  *)
(***************************************************************************)
\* C11: allocator exhaustion is fatal. When the system allocator has
\* returned null to the allocation-pattern workload, the run stops at that
\* point: the failing call is the last one the workload makes (no further
\* iteration, no shuffle, no dealloc, no elapsed time taken), unless the
\* process has died; and in the memory-pool workload no allocate call has
\* returned None with the workload going on.
C11_ExhaustionIsFatal ==
    /\ \A k \in 1 .. Len(allocs) :
          allocs[k].ptr = NullPtr =>
              /\ k = Len(allocs)
              /\ mainPc \in {"ap_alloc", "panicked", "aborted"}
    /\ mainPc \in {"pool_first", "pool_batch", "pool_elapsed"} =>
          poolOk = (IF mainPc = "pool_first" THEN poolI
                    ELSE IF mainPc = "pool_batch"
                         THEN pool_iterations
                              + poolBatch * (pool_iterations \div 10) + poolI
                         ELSE pool_iterations
                              + 10 * (pool_iterations \div 10))

\* C19: in the random phase every block obtained from the system allocator
\* is passed to dealloc exactly once, with the size it was allocated with,
\* whatever order the shuffle leaves raw_ptrs in; when the phase is over no
\* block is still allocated and dealloc has been called `iterations` times.
C19_EachBlockFreedOnce ==
    /\ \A j \in 1 .. Len(deallocs) :
          deallocs[j].ptr # NullPtr =>
              /\ \E k \in 1 .. Len(allocs) : allocs[k] = deallocs[j]
              /\ \A j2 \in 1 .. Len(deallocs) :
                    deallocs[j2].ptr = deallocs[j].ptr => j2 = j
    /\ mainPc = "ap_elapsed" =>
          /\ Len(deallocs) = ap_iterations
          /\ \A k \in 1 .. Len(allocs) :
                allocs[k].ptr # NullPtr =>
                    \E j \in 1 .. Len(deallocs) : deallocs[j] = allocs[k]

\* The phase is over, every allocation succeeded, the sizes differ and the
\* blocks were freed in an order other than the one they were allocated in.
C19_Witness ==
    /\ mainPc = "ap_elapsed"
    /\ Len(allocs) = ap_iterations
    /\ Len(allocs) > 2
    /\ \A k \in 1 .. Len(allocs) : allocs[k].ptr # NullPtr
    /\ allocs[1].size # allocs[2].size
    /\ deallocs # allocs
    /\ deallocs[1] = allocs[Len(allocs)]

(***************************************************************************)
(* Properties of main (checked under SpecRun).                             *)
(***************************************************************************)
WorkloadOrder ==
    <<"allocation_patterns", "gc_stress", "cache_locality", "memory_pool",
      "memory_intensive">>

RECURSIVE SumSeq(_)
SumSeq(s) == IF s = <<>> THEN 0 ELSE Head(s) + SumSeq(Tail(s))

\* C13: the workloads that have returned are the first ones of the fixed
\* order, each once; a line is printed at most once, only after all five
\* have returned, and the number on it is the sum of the five elapsed
\* times they returned; a run that ends normally has printed it.
C13_OneTotalAfterFiveWorkloads ==
    /\ Len(ran) <= Len(WorkloadOrder)
    /\ ran = SubSeq(WorkloadOrder, 1, Len(ran))
    /\ Len(returned) = Len(ran)
    /\ stdout \in {0, 1}
    /\ stdout = 0 => printed = NotPrinted
    /\ stdout = 1 =>
          /\ ran = WorkloadOrder
          /\ printed.int * 1000 + printed.frac = SumSeq(returned)
          /\ printed.frac \in 0 .. 999
    /\ mainPc = "exit" => stdout = 1

\* A run has ended normally after workloads that took different times.
C13_Witness ==
    /\ mainPc = "exit"
    /\ stdout = 1
    /\ ran = WorkloadOrder
    /\ returned[1] # returned[2]
    /\ returned[5] # returned[1]
    /\ printed.int > 0
    /\ printed.frac > 0

(***************************************************************************)
(* Properties of the bandwidth workload (checked under SpecRun).           *)
(***************************************************************************)
AfterCopy == mainPc = "mi_read" \/ (mainPc = "mi_random" /\ miI = 0)

\* C14: from the end of the bulk copy to the first random
\* read-modify-write, buffer 2 has the byte of buffer 1 at every offset,
\* for each buffer size; and buffer 1 still holds what the strided write
\* left in it (the copy has not modified it).
C14_CopyMakesBuffersEqual ==
    AfterCopy =>
        /\ DOMAIN large_array1 = 0 .. mi_size - 1
        /\ DOMAIN large_array2 = 0 .. mi_size - 1
        /\ \A i \in 0 .. mi_size - 1 :
              /\ large_array2[i] = large_array1[i]
              /\ large_array1[i] = (IF i % 4096 = 0 THEN i % 256 ELSE 0)

\* The copy of the larger buffers has been made.
C14_Witness ==
    /\ mainPc = "mi_read"
    /\ scale_factor > 1
    /\ DOMAIN large_array2 = 0 .. MiBytesUnit * scale_factor - 1
    /\ large_array2 = large_array1

(***************************************************************************)
(* Properties of the memory-pool workload (checked under SpecRun).         *)
(***************************************************************************)
PoolPcs == {"pool_first", "pool_batch", "pool_elapsed"}

\* C15: the arena exists only while the main thread is in
\* memory_pool_test, no allocate or reset call has been made outside it,
\* and while it exists no worker thread of gc_stress_test is running.
C15_ArenaOwnedByOneThread ==
    /\ arena # Arena_new(0) => mainPc \in PoolPcs
    /\ mainPc \notin PoolPcs => poolOk = 0 /\ poolResets = 0
    /\ mainPc \in PoolPcs =>
          \A t \in Threads : wPc[t] \in {"finished", "panicked"}

\* The main thread is in a batch, with regions allocated after a reset.
C15_Witness ==
    /\ mainPc = "pool_batch"
    /\ poolResets > 1
    /\ arena.used > 0
    /\ \A t \in Threads : wPc[t] = "finished" /\ wI[t] > 0

\* The allocate calls the workload has made so far
PoolCalls ==
    IF mainPc = "pool_first" THEN poolI
    ELSE IF mainPc = "pool_batch"
         THEN pool_iterations + poolBatch * (pool_iterations \div 10) + poolI
         ELSE pool_iterations + 10 * (pool_iterations \div 10)

\* C16: the arena of memory_pool_test has capacity iterations*128 + 1024
\* and every allocate call of the workload succeeds; reset is called once
\* after the first pass and once after each batch, 11 times in all, and
\* the cursor is 0 when the workload ends.
C16_PoolNeverFails ==
    mainPc \in PoolPcs =>
        /\ arena.len = pool_iterations * 128 + 1024
        /\ poolOk = PoolCalls
        /\ mainPc = "pool_first" => Len(arena_ptrs) = poolI /\ poolResets = 0
        /\ mainPc = "pool_batch" => poolResets = 1 + poolBatch
        /\ mainPc = "pool_elapsed" =>
              /\ poolOk = pool_iterations + 10 * (pool_iterations \div 10)
              /\ poolResets = 11
              /\ arena.used = 0

\* The workload has ended after batches of more than one allocation.
C16_Witness ==
    /\ mainPc = "pool_elapsed"
    /\ pool_iterations \div 10 > 1
    /\ poolOk = 2 * pool_iterations
    /\ poolResets = 11
    /\ arena.used = 0

(***************************************************************************)
(* Properties of the workers' generators (checked under SpecRun).          *)
(***************************************************************************)
\* The generator seeded s after n calls of next(), and the sizes
\* 16 + next() % 1024 of those calls
RECURSIVE GenAfter(_, _)
GenAfter(s, n) ==
    IF n = 0 THEN XorShift64_new(s)
    ELSE XorShift64_next(GenAfter(s, n - 1)).gen
RECURSIVE SizesOf(_, _)
SizesOf(s, n) ==
    IF n = 0 THEN <<>>
    ELSE Append(SizesOf(s, n - 1),
                16 + Mod1024(XorShift64_next(GenAfter(s, n - 1)).ret))

\* The first sizes of threads 0 .. 3, computed with 64-bit arithmetic from
\* lines 49-54 and 99.
FirstSizes ==
    <<  <<698, 719, 394>>, <<763, 782, 867>>, <<828, 842, 348>>,
        <<893, 907, 885>>  >>

\* C17: the sizes worker t has drawn are those of a generator seeded
\* 42 + t that nobody else calls: one per iteration begun, each in
\* [16, 1040), whatever the other workers have done; and the worker's
\* generator is in the state that many calls leave it in.
C17_WorkerSizesDeterministic ==
    \A t \in Threads :
        /\ Len(wSizes[t]) = wI[t] + (IF wPc[t] = "fetch_add" THEN 1 ELSE 0)
        /\ wSizes[t] = SizesOf(42 + t, Len(wSizes[t]))
        /\ \A k \in 1 .. Len(wSizes[t]) :
              /\ wSizes[t][k] >= 16
              /\ wSizes[t][k] < 1040
              /\ k <= 3 => wSizes[t][k] = FirstSizes[t + 1][k]
        /\ wPc[t] \notin {"unspawned", "entry"} =>
              wRng[t] = GenAfter(42 + t, Len(wSizes[t]))

\* Worker 0 has made its last draw after all the others had returned.
C17_Witness ==
    /\ \A t \in Threads :
          wPc[t] \in {"finished", "fetch_add"} /\ Len(wSizes[t]) > 1
    /\ wPc[0] = "fetch_add"
    /\ \A t \in Threads \ {0} : wPc[t] = "finished"
    /\ wSizes[0] # wSizes[1]

(***************************************************************************)
(* Termination (checked under SpecRunFair).                                *)
(***************************************************************************)
\* C18: without a worker panic or an allocation failure, and with every
\* thread that can take a step eventually taking one, the run comes to the
\* state where every worker has completed its K iterations, main has
\* joined all N workers and read the counter, and the total is printed.
C18_RunTerminates ==
    <>(/\ AllWorkersDone
       /\ gcI = num_threads
       /\ result.tag = "read"
       /\ stdout = 1
       /\ mainPc = "exit")

\* A run that was given an argument has ended.
C18_Witness ==
    /\ mainPc = "exit"
    /\ stdout = 1
    /\ Len(args) > 0
    /\ AllWorkersDone
    /\ result = Read(num_threads * iterations_per_thread)

=============================================================================
